---- MODULE Spec2Model ----
(***************************************************************************)
(* Model of cnabtools: the client-side build cache of docker.py and the    *)
(* manifest operations of bundler.py.                                      *)
(*                                                                         *)
(* Strings are sequences of tokens (a token is a TLA+ string standing for  *)
(* one character or one indivisible run of characters), so that Python's   *)
(* index, slicing, strip and concatenation are computed, not assumed.      *)
(* Python dicts that the code iterates are sequences of [k, v] pairs       *)
(* (insertion order); small dicts that are only read by key are functions. *)
(***************************************************************************)
EXTENDS Integers, Sequences, FiniteSets, TLC

VARIABLES store, context, iid_out, scratch, tmpn, duffle_json, output,
          last, prev, nops, built, procs

vars == <<store, context, iid_out, scratch, tmpn, duffle_json, output,
          last, prev, nops, built, procs>>

\* ------------------------------------------------------------------ bounds

\* Number of top-level operations in one behaviour.
MaxOps == 2

\* Length of the identity part kept in a content-addressable tag.
TagLen == 40

\* ------------------------------------------------------------ Python values

None == <<"!None">>

EmptyDict == <<>>

Truthy(v) == v # None /\ v # <<>>

DictGet(d, k, default) == IF k \in DOMAIN d THEN d[k] ELSE default

\* d1 updated with the keys of d2 ({**d1, **d2}).
DictMerge(d1, d2) ==
  [k \in DOMAIN d1 \cup DOMAIN d2 |-> IF k \in DOMAIN d2 THEN d2[k] ELSE d1[k]]

Whitespace == {" ", "\n", "\t"}

RECURSIVE lstrip(_)
lstrip(s) ==
  IF s # <<>> /\ Head(s) \in Whitespace THEN lstrip(Tail(s)) ELSE s

RECURSIVE rstrip(_)
rstrip(s) ==
  IF s # <<>> /\ s[Len(s)] \in Whitespace
  THEN rstrip(SubSeq(s, 1, Len(s) - 1)) ELSE s

\* str.strip()
strip(s) == rstrip(lstrip(s))

\* str.index(ch): the first position of ch, 0 where Python raises ValueError.
index(s, ch) ==
  IF \E i \in 1..Len(s) : s[i] = ch
  THEN CHOOSE i \in 1..Len(s) : s[i] = ch /\ \A j \in 1..(i - 1) : s[j] # ch
  ELSE 0

\* s[n:]
SliceFrom(s, n) == SubSeq(s, n + 1, Len(s))

\* s[:n]
SliceTo(s, n) == SubSeq(s, 1, IF Len(s) < n THEN Len(s) ELSE n)

Hex(n, c) == [i \in 1..n |-> c]

\* -------------------------------------------------------------- data sets

\* Image identities the builder assigns (sha256:<64 hex>).
IdA == <<"sha256", ":">> \o Hex(TagLen, "a") \o Hex(24, "0")
IdB == <<"sha256", ":">> \o Hex(TagLen, "b") \o Hex(24, "1")
BuildIds == {IdA, IdB}

\* An identity string without ':' (as a caller may pass one).
IdNoColon == <<"sha256">> \o Hex(4, "c")

\* Identity strings a caller may pass that have a ':' and no hex digits
\* after it, or characters after it that are no hex digits.
IdEmptyHex == <<"sha256", ":">>
IdNonHex == <<"sha256", ":", "z", "z">>

\* Build contexts: relative path -> file content.
\* CtxFiles lists the paths in sorted order.
CtxFiles == <<"a.txt", "b.txt", "sub/c.txt">>
Ctx1 == ("a.txt" :> "x") @@ ("b.txt" :> "y")
Ctx2 == ("a.txt" :> "x") @@ ("b.txt" :> "z")
Ctx3 == Ctx1 @@ ("sub/c.txt" :> "x")
Contexts == {Ctx1, Ctx2}

\* Extra arguments given to the build (None: the argument is left out).
ArgChoices == {None, <<"--pull">>}

NoPath == None
IidPath == <<"out.iid">>
BundlePath == <<"bundle.json">>
Absent == <<"!absent">>

\* ------------------------------------------------------------ digest engine

\* hashlib.sha256(...).hexdigest() as an ideal hash: injective, and its
\* digits are none of the characters of the text hashed.
Sha256Hex(s) == [i \in 1..Len(s) |-> "#" \o s[i]]

_digest_string(s) == Sha256Hex(s)

_digest_file(content) == Sha256Hex(<<content>>)

\* json.dumps(o, sort_keys=True) of {'digests': {...}, 'args': [...]}:
\* the keys of every object in sorted order.
RECURSIVE DumpDigests(_, _)
DumpDigests(digests, i) ==
  IF i > Len(CtxFiles) THEN <<>>
  ELSE (IF CtxFiles[i] \in DOMAIN digests
        THEN <<CtxFiles[i], ":">> \o digests[CtxFiles[i]] \o <<",">>
        ELSE <<>>) \o DumpDigests(digests, i + 1)

_digest_json(o) ==
  _digest_string(<<"{", "args", ":", "[">> \o o.args \o <<"]", ",",
                   "digests", ":", "{">> \o DumpDigests(o.digests, 1)
                   \o <<"}", "}">>)

digest_build_invocation(build_context, build_invocation_args) ==
  LET digests == [p \in DOMAIN build_context |-> _digest_file(build_context[p])]
  IN _digest_json([digests |-> digests, args |-> build_invocation_args])

\* The orders in which os.walk may enumerate the files of a context.
Walks(build_context) ==
  {w \in [1..Cardinality(DOMAIN build_context) -> DOMAIN build_context] :
     \A i, j \in DOMAIN w : i # j => w[i] # w[j]}

\* digests = {}; digests[relpath] = _digest_file(path) for every file in the
\* order of the walk: the dict in insertion order.
WalkDigests(build_context, walk) ==
  [i \in 1..Len(walk) |->
     [k |-> walk[i], v |-> _digest_file(build_context[walk[i]])]]

RECURSIVE DumpItems_unsorted(_, _)
DumpItems_unsorted(items, i) ==
  IF i > Len(items) THEN <<>>
  ELSE <<items[i].k, ":">> \o items[i].v \o <<",">>
       \o DumpItems_unsorted(items, i + 1)

\* json.dumps(o, sort_keys=True) of a dict in insertion order: its items in
\* the sorted order of their keys.
RECURSIVE DumpItems(_, _)
DumpItems(items, i) ==
  IF i > Len(CtxFiles) THEN <<>>
  ELSE (IF \E j \in 1..Len(items) : items[j].k = CtxFiles[i]
        THEN <<CtxFiles[i], ":">>
             \o items[CHOOSE j \in 1..Len(items) : items[j].k = CtxFiles[i]].v
             \o <<",">>
        ELSE <<>>) \o DumpItems(items, i + 1)

_digest_json_items(o) ==
  _digest_string(<<"{", "args", ":", "[">> \o o.args \o <<"]", ",",
                   "digests", ":", "{">> \o DumpItems(o.digests, 1)
                   \o <<"}", "}">>)

\* digest_build_invocation with the order of the walk made explicit.
digest_build_invocation_walk(build_context, walk, build_invocation_args) ==
  _digest_json_items([digests |-> WalkDigests(build_context, walk),
                      args |-> build_invocation_args])

_imgref_for_invocation_digest(build_context_digest) ==
  <<"build-context", ":">> \o build_context_digest

content_addressable_imgref(image_repository, image_id) ==
  IF index(image_id, ":") = 0 THEN None
  ELSE image_repository \o <<":">>
       \o SliceTo(SliceFrom(image_id, index(image_id, ":")), TagLen)

\* ------------------------------------------------------- builder primitives
\* sys is the world a handler acts on:
\*   store   reference -> identity, the builder's image store
\*   iid_out content of the caller's identity file (Absent: no such file)
\*   scratch the scratch directories that exist
\*   tmpn    number of scratch directories created so far
\*   made    scratch directories created by the running handler
\*   log     the external primitives the running handler invoked

Logged(sys, prim, ref, id, who, ok) ==
  [sys EXCEPT !.log = Append(@, [prim |-> prim, ref |-> ref, id |-> id,
                                 who |-> who, ok |-> ok])]

\* A reference the builder accepts: <repository>:<tag>, one ':' at most and
\* no empty tag after it.
ValidRef(ref) ==
  /\ Cardinality({i \in 1..Len(ref) : ref[i] = ":"}) <= 1
  /\ ref # <<>>
  /\ ref[Len(ref)] # ":"

\* docker tag <id> <ref>: tagOk is the builder's answer when the request
\* is well formed.
DockerTagOk(id, ref, tagOk) == tagOk /\ ValidRef(ref) /\ id # <<>>

docker_tag(sys, id, ref, tagOk, who) ==
  LET ok == DockerTagOk(id, ref, tagOk)
      s1 == Logged(sys, "tag", ref, id, who, ok)
  IN IF ok
     THEN [s1 EXCEPT !.store = (ref :> id) @@ @]
     ELSE s1

\* docker inspect <ref> --format '{{ .Id }}'
docker_inspect(st, ref) ==
  IF ref \in DOMAIN st
  THEN [returncode |-> 0, stdout |-> st[ref] \o <<"\n">>]
  ELSE [returncode |-> 1, stdout |-> <<>>]

image_id_nostrip(st, imgref) ==
  LET p == docker_inspect(st, imgref)
  IN IF p.returncode # 0 THEN None ELSE p.stdout

image_id(st, imgref) ==
  LET p == docker_inspect(st, imgref)
  IN IF p.returncode # 0 THEN None ELSE strip(p.stdout)

\* ------------------------------------------------------------ build invoker

BuildFails == <<"!fail">>

NoDir == 0

\* What the environment answers to one build_with_client_cache call: the
\* outcome of docker build (a failure or the identity it assigns), whether
\* the identity file can then be read, and the builder's answer to the tag
\* request.  Answers that are never asked for are fixed to TRUE, and a
\* failing read or tag is drawn for one of the identities.
Envs ==
  {e \in [build : {BuildFails} \cup BuildIds, read : BOOLEAN, tag : BOOLEAN] :
     /\ (e.build = BuildFails => e.read /\ e.tag)
     /\ (~e.read => e.tag)
     /\ (~e.read \/ ~e.tag => e.build = IdA)}

\* subprocess.run(['docker', 'build', '--iidfile', iidfile] + args + [path]):
\* a successful build writes the identity to the identity file.  The log
\* entry carries the invocation reference of the inputs that were built.
docker_build(sys, iidfile, imgref, env, who) ==
  LET ok == env.build # BuildFails
      s1 == Logged(sys, "build", imgref, IF ok THEN env.build ELSE <<>>, who, ok)
  IN IF ~ok THEN [sys |-> s1, returncode |-> 1, tmpfile |-> Absent]
     ELSE IF Truthy(iidfile)
          THEN [sys |-> [s1 EXCEPT !.iid_out = env.build], returncode |-> 0,
                tmpfile |-> Absent]
          ELSE [sys |-> s1, returncode |-> 0, tmpfile |-> env.build]

TagInvocation_untagged(sys, iid, imgref, env, who) ==
  IF DockerTagOk(iid, imgref, env.tag)
  THEN [sys |-> Logged(sys, "tag", imgref, iid, who, TRUE), ret |-> iid, err |-> ""]
  ELSE [sys |-> Logged(sys, "tag", imgref, iid, who, FALSE), ret |-> None,
        err |-> "TagError"]

TagInvocation_unchecked(sys, iid, imgref, env, who) ==
  [sys |-> docker_tag(sys, iid, imgref, env.tag, who), ret |-> iid, err |-> ""]

\* subprocess.run(['docker', 'tag', iid, imgref], check=True)
TagInvocation(sys, iid, imgref, env, who) ==
  LET t == docker_tag(sys, iid, imgref, env.tag, who)
  IN IF DockerTagOk(iid, imgref, env.tag)
     THEN [sys |-> t, ret |-> iid, err |-> ""]
     ELSE [sys |-> t, ret |-> None, err |-> "TagError"]

\* with open(iidfile, 'r') as f: iid = f.read().strip(), then the tag step.
ReadAndTag(b, iidfile, imgref, env, who) ==
  LET content == IF Truthy(iidfile) THEN b.sys.iid_out ELSE b.tmpfile
  IN IF ~env.read \/ content = Absent
     THEN [sys |-> b.sys, ret |-> None, err |-> "IOError"]
     ELSE TagInvocation(b.sys, strip(content), imgref, env, who)

TryBody_nocheck(sys, iidfile, imgref, env, who) ==
  ReadAndTag(docker_build(sys, iidfile, imgref, env, who), iidfile, imgref, env, who)

TryBody_tag_on_failure(sys, iidfile, imgref, env, who) ==
  LET b == docker_build(sys, iidfile, imgref, env, who)
  IN IF b.returncode # 0
     THEN [ReadAndTag(b, iidfile, imgref, env, who)
             EXCEPT !.ret = None, !.err = "BuildError"]
     ELSE ReadAndTag(b, iidfile, imgref, env, who)

\* The body of the try statement: build (check=True), read, tag.
TryBody(sys, iidfile, imgref, env, who) ==
  LET b == docker_build(sys, iidfile, imgref, env, who)
  IN IF b.returncode # 0
     THEN [sys |-> b.sys, ret |-> None, err |-> "BuildError"]
     ELSE ReadAndTag(b, iidfile, imgref, env, who)

Finally_on_success(r, tmpdir) ==
  IF tmpdir # NoDir /\ r.err = ""
  THEN [r EXCEPT !.sys.scratch = @ \ {tmpdir}]
  ELSE r

\* finally: if tmpdir: shutil.rmtree(tmpdir)
Finally(r, tmpdir) ==
  IF tmpdir # NoDir
  THEN [r EXCEPT !.sys.scratch = @ \ {tmpdir}]
  ELSE r

\* tmpdir = tempfile.mkdtemp() when the caller names no identity file.
MkTmp(sys, iidfile) ==
  IF ~Truthy(iidfile)
  THEN [sys EXCEPT !.tmpn = @ + 1,
                   !.scratch = @ \cup {sys.tmpn + 1},
                   !.made = @ \cup {sys.tmpn + 1}]
  ELSE sys

CacheMiss(sys, iidfile, imgref, env, who) ==
  LET tmpdir == IF ~Truthy(iidfile) THEN sys.tmpn + 1 ELSE NoDir
  IN Finally(TryBody(MkTmp(sys, iidfile), iidfile, imgref, env, who), tmpdir)

CacheHit_nowrite(sys, iidfile, found) ==
  [sys |-> sys, ret |-> found, err |-> ""]

\* if image_id: write it to the caller's identity file and return it.
CacheHit(sys, iidfile, found) ==
  [sys |-> IF Truthy(iidfile) THEN [sys EXCEPT !.iid_out = found] ELSE sys,
   ret |-> found, err |-> ""]

NormArgs(args) == IF Truthy(args) THEN args ELSE <<>>

InvocationRef(build_context, args) ==
  _imgref_for_invocation_digest(
    digest_build_invocation(build_context, NormArgs(args)))

build_with_client_cache(sys, build_context, iidfile, args, env, who) ==
  LET imgref == InvocationRef(build_context, args)
      found == image_id(sys.store, imgref)
      s1 == Logged(sys, "inspect", imgref, <<>>, who, imgref \in DOMAIN sys.store)
  IN IF Truthy(found)
     THEN CacheHit(s1, iidfile, found)
     ELSE CacheMiss(s1, iidfile, imgref, env, who)

\* -------------------------------------------------------- content addressing

\* docker.tag_content_addressable: the tag request is not checked.
tag_content_addressable(sys, image_repository, image_id_, tagOk, who) ==
  LET imgref == content_addressable_imgref(image_repository, image_id_)
  IN IF imgref = None
     THEN [sys |-> sys, ret |-> None, err |-> "ValueError"]
     ELSE [sys |-> docker_tag(sys, image_id_, imgref, tagOk, who),
           ret |-> imgref, err |-> ""]

\* env.catag is the builder's answer to the content-addressable tag request.
\* return imgref, image_id
Tagged(t, image_id_) ==
  IF t.err # "" THEN t
  ELSE [sys |-> t.sys, ret |-> [imgref |-> t.ret, image_id |-> image_id_],
        err |-> ""]

\* imgref = self.tag_content_addressable(image_repository, image_id)
TagBuilt(b, image_repository, env, who) ==
  IF b.err # "" THEN b
  ELSE Tagged(tag_content_addressable(b.sys, image_repository, b.ret,
                                      env.catag, who), b.ret)

build_content_addressable_named(sys, build_context, image_repository, env, who) ==
  TagBuilt(build_with_client_cache(sys, build_context, NoPath, <<who>>, env, who),
           image_repository, env, who)

\* image_id = self.build_with_client_cache(build_context_path, **kwargs),
\* called by the bundler with no keyword arguments.
build_content_addressable(sys, build_context, image_repository, env, who) ==
  TagBuilt(build_with_client_cache(sys, build_context, NoPath, None, env, who),
           image_repository, env, who)

\* ------------------------------------------------------------- the manifest

\* json.dump / json.load of duffle.json, and json.dumps(o, sort_keys=True).
json_dump(o) == [format |-> "json", value |-> o]

json_load(f) == f.value

canonical_json(o) == [format |-> "canonical", value |-> o]

NoFile == [format |-> "absent", value |-> <<>>]

read_manifest(sys) == json_load(sys.duffle_json)

write_manifest(sys, manifest) == [sys EXCEPT !.duffle_json = json_dump(manifest)]

Images1 ==
  << [k |-> "db",
      v |-> ("image" :> <<"myrepo/db", ":", "latest">>)
            @@ ("description" :> <<"database">>)],
     [k |-> "web", v |-> ("image" :> <<"myrepo/web">>)] >>

InvA ==
  << [k |-> "install",
      v |-> ("builder" :> <<"docker">>)
            @@ ("configuration" :> ("registry" :> <<"reg.io">>))],
     [k |-> "upgrade", v |-> EmptyDict] >>

InvB ==
  << [k |-> "install",
      v |-> ("builder" :> <<"docker">>)
            @@ ("configuration" :> ("registry" :> <<>>))],
     [k |-> "legacy", v |-> ("builder" :> <<"packer">>)] >>

Manifest(inv) ==
  [name |-> "app", version |-> <<"0.1.0">>, images |-> Images1,
   invocationImages |-> inv]

Manifests == {Manifest(InvA), Manifest(InvB)}

\* Identities a caller hands to the relocation, by image name.
IdMaps ==
  { ("db" :> IdA), ("web" :> IdB), ("db" :> IdA) @@ ("web" :> IdB),
    ("web" :> IdNoColon) }

RelocatedEntry_bare(image, next_image, image_id_) ==
  ("image" :> next_image) @@ ("contentDigest" :> image_id_)

\* {**image, "image": next_image, "contentDigest": image_id}
RelocatedEntry(image, next_image, image_id_) ==
  DictMerge(image, ("image" :> next_image) @@ ("contentDigest" :> image_id_))

\* One iteration of the loop over duffle_manifest['images']: the entry is
\* kept as it is, or tagged and replaced; t is the result of the tag call.
RECURSIVE RelocateLoop(_, _, _, _, _, _)
RelocateTagged(t, images, image_ids, tagOks, i, next_images) ==
  IF t.err # "" THEN t
  ELSE RelocateLoop(t.sys, images, image_ids, tagOks, i + 1,
         Append(next_images,
                [k |-> images[i].k,
                 v |-> RelocatedEntry(images[i].v, t.ret,
                                      image_ids[images[i].k])]))

RelocateLoop(sys, images, image_ids, tagOks, i, next_images) ==
  IF i > Len(images) THEN [sys |-> sys, ret |-> next_images, err |-> ""]
  ELSE IF ~Truthy(DictGet(image_ids, images[i].k, None))
       THEN RelocateLoop(sys, images, image_ids, tagOks, i + 1,
                         Append(next_images, images[i]))
       ELSE RelocateTagged(
              tag_content_addressable(sys, images[i].v["image"],
                                      image_ids[images[i].k], tagOks[i],
                                      images[i].k),
              images, image_ids, tagOks, i, next_images)

\* next_duffle_manifest = {**duffle_manifest, 'images': next_images};
\* self.write_manifest(next_duffle_manifest)
RelocateWrite(l, duffle_manifest) ==
  IF l.err # "" THEN l
  ELSE [sys |-> write_manifest(l.sys,
                  DictMerge(duffle_manifest, [images |-> l.ret])),
        ret |-> None, err |-> ""]

relocate_images_to_content_addressable(sys, image_ids, tagOks) ==
  RelocateWrite(RelocateLoop(sys, read_manifest(sys).images, image_ids,
                             tagOks, 1, <<>>),
                read_manifest(sys))

\* ---------------------------------------------------------- build_cnab_app

\* The environment of one build_cnab_app call: the builder's answers to the
\* build, read and invocation-tag requests of the call (env), and its answer
\* to the content-addressable tag request of each entry (catags).
AppEnv(env, catag) ==
  [build |-> env.build, read |-> env.read, tag |-> env.tag, catag |-> catag]

ImageFullName_noregistry(app_name, manifest_name, build_spec) ==
  <<app_name, "-", manifest_name>>

\* f"{app_name}-{manifest_name}", prefixed by the configured registry.
ImageFullName(app_name, manifest_name, build_spec) ==
  LET registry == DictGet(DictGet(build_spec, "configuration", EmptyDict),
                          "registry", None)
  IN IF Truthy(registry)
     THEN registry \o <<"/">> \o <<app_name, "-", manifest_name>>
     ELSE <<app_name, "-", manifest_name>>

IsDockerBuilder_any(build_spec) == TRUE

\* builder = build_spec.get("builder", "docker"); builder == 'docker'
IsDockerBuilder(build_spec) ==
  DictGet(build_spec, "builder", <<"docker">>) = <<"docker">>

\* The CNAB specification returned for a built invocation image.
CnabSpec(b) ==
  IF b.err # "" THEN b
  ELSE [sys |-> b.sys,
        ret |-> [image |-> b.ret.imgref,
                 contentDigest |-> b.ret.image_id,
                 imageType |-> <<"docker">>],
        err |-> ""]

_build_invocation_image(sys, cnab_dir, app_name, manifest_name, build_spec, env) ==
  IF IsDockerBuilder(build_spec)
  THEN CnabSpec(build_content_addressable(
                  sys, cnab_dir,
                  ImageFullName(app_name, manifest_name, build_spec),
                  env, manifest_name))
  ELSE [sys |-> sys, ret |-> None, err |-> "Unsupported"]

\* One iteration of the loop over duffle_manifest['invocationImages']; r is
\* the result of _build_invocation_image for entry i.
RECURSIVE BuildLoop(_, _, _, _, _, _, _, _)
BuildAppended_rollback(r, cnab_dir, app_name, inv, env, catags, i, cnab_invocation_images) ==
  IF r.err # ""
  THEN [sys |-> [r.sys EXCEPT !.store =
                   [ref \in DOMAIN r.sys.store
                             \ {r.sys.log[j].ref :
                                  j \in {j \in 1..Len(r.sys.log) :
                                           r.sys.log[j].prim = "tag"}}
                      |-> r.sys.store[ref]]],
        ret |-> None, err |-> r.err, reached |-> i]
  ELSE BuildLoop(r.sys, cnab_dir, app_name, inv, env, catags, i + 1,
                 Append(cnab_invocation_images, r.ret))

BuildAppended(r, cnab_dir, app_name, inv, env, catags, i, cnab_invocation_images) ==
  IF r.err # ""
  THEN [sys |-> r.sys, ret |-> None, err |-> r.err, reached |-> i]
  ELSE BuildLoop(r.sys, cnab_dir, app_name, inv, env, catags, i + 1,
                 Append(cnab_invocation_images, r.ret))

BuildLoop(sys, cnab_dir, app_name, inv, env, catags, i, cnab_invocation_images) ==
  IF i > Len(inv)
  THEN [sys |-> sys, ret |-> cnab_invocation_images, err |-> "",
        reached |-> Len(inv)]
  ELSE BuildAppended(
         _build_invocation_image(sys, cnab_dir, app_name, inv[i].k, inv[i].v,
                                 AppEnv(env, catags[i])),
         cnab_dir, app_name, inv, env, catags, i, cnab_invocation_images)

\* with open(output_file, 'w') as f: f.write(canonical_json(cnab_manifest))
WriteOutput(sys, output_file, cnab_manifest) ==
  [Logged(sys, "write", output_file, <<>>, "", TRUE)
     EXCEPT !.output = canonical_json(cnab_manifest)]

\* cnab_manifest = {**duffle_manifest, 'invocationImages': ...}, written to
\* output_file when one is given, and returned.
CnabManifest(l, duffle_manifest, output_file) ==
  IF l.err # "" THEN l
  ELSE [sys |-> IF Truthy(output_file)
                THEN WriteOutput(l.sys, output_file,
                       DictMerge(duffle_manifest, [invocationImages |-> l.ret]))
                ELSE l.sys,
        ret |-> DictMerge(duffle_manifest, [invocationImages |-> l.ret]),
        err |-> "", reached |-> l.reached]

build_cnab_app(sys, cnab_dir, output_file, env, catags) ==
  CnabManifest(BuildLoop(sys, cnab_dir, read_manifest(sys).name,
                         read_manifest(sys).invocationImages, env, catags,
                         1, <<>>),
               read_manifest(sys), output_file)

\* --------------------------------------------------------------- the state
\* An action draws the answers of the environment (the builder, the file
\* system) from their sets and takes one of the outcomes the handler can
\* then have.

Sys ==
  [store |-> store, iid_out |-> iid_out, scratch |-> scratch, tmpn |-> tmpn,
   duffle_json |-> duffle_json, output |-> output, made |-> {}, log |-> <<>>]

Commit(sys) ==
  /\ store' = sys.store
  /\ iid_out' = sys.iid_out
  /\ scratch' = sys.scratch
  /\ tmpn' = sys.tmpn
  /\ duffle_json' = sys.duffle_json
  /\ output' = sys.output

\* The record of a call: its inputs (args: the extra build arguments, the
\* identities handed to the relocation, or the identity to tag; key: the
\* invocation reference of the call's inputs, or the repository to tag
\* into), its result, what it invoked, and the state it started in.
CallRecord(op, r, ctx, args, iidfile, key) ==
  [op |-> op, ctx |-> ctx, args |-> args, iidfile |-> iidfile, key |-> key,
   ret |-> r.ret, err |-> r.err, log |-> r.sys.log, made |-> r.sys.made,
   reached |-> DictGet(r, "reached", 0),
   pre_store |-> store, pre_iid |-> iid_out, pre_output |-> output,
   pre_duffle |-> duffle_json]

NoCall ==
  [op |-> "none", ctx |-> <<>>, args |-> <<>>, iidfile |-> NoPath, key |-> <<>>,
   ret |-> None, err |-> "", log |-> <<>>, made |-> {},
   reached |-> 0,
   pre_store |-> <<>>, pre_iid |-> Absent, pre_output |-> NoFile,
   pre_duffle |-> NoFile]

\* The builder's store outlives a run of the program: it starts empty, or
\* holding the invocation tag an earlier run made for Ctx1 without arguments.
InitialStores == {<<>>, (InvocationRef(Ctx1, None) :> IdB)}

\* The two concurrent callers of build_with_client_cache and the position
\* and local variables of each; in a sequential run no caller is started.
Callers == {1, 2}

Caller(pc, args, iidfile) ==
  [pc |-> pc, args |-> args, iidfile |-> iidfile, image_id |-> None,
   tmpdir |-> NoDir, tmpfile |-> Absent, iid |-> None, ret |-> None,
   err |-> "", builds |-> 0]

NoCallers == [p \in Callers |-> Caller("idle", None, NoPath)]

\* The successful external builds of a log: the invocation reference of the
\* inputs built and the identity the build assigned.
BuildsIn(log) ==
  {[ref |-> log[j].ref, id |-> log[j].id] :
     j \in {j \in 1..Len(log) : log[j].prim = "build" /\ log[j].ok}}

Init ==
  /\ store \in InitialStores
  /\ context = Ctx1
  /\ iid_out = Absent
  /\ scratch = {}
  /\ tmpn = 0
  /\ duffle_json \in {json_dump(m) : m \in Manifests}
  /\ output = NoFile
  /\ last = NoCall
  /\ prev = NoCall
  /\ nops = 0
  /\ built = {[ref |-> r, id |-> store[r]] : r \in DOMAIN store}
  /\ procs = NoCallers

\* built records every external build that succeeded, the builds of the
\* earlier run included.
Step(rec, sys) ==
  /\ Commit(sys)
  /\ last' = rec
  /\ prev' = last
  /\ nops' = nops + 1
  /\ built' = built \cup BuildsIn(sys.log)
  /\ UNCHANGED procs

\* A call of op with result r on the current context.
Call(op, r, ctx, args, iidfile, key) ==
  /\ Step(CallRecord(op, r, ctx, args, iidfile, key), r.sys)
  /\ UNCHANGED context

BuildWithClientCache ==
  /\ nops < MaxOps
  /\ \E iidfile \in {NoPath, IidPath}, args \in ArgChoices :
       \E r \in {build_with_client_cache(Sys, context, iidfile, args, env, "") :
                   env \in Envs} :
         Call("build_with_client_cache", r, context, NormArgs(args), iidfile,
              InvocationRef(context, args))

\* The build context is edited between calls.
EditContext ==
  /\ nops < MaxOps
  /\ \E c \in Contexts \ {context} :
       /\ context' = c
       /\ Step([NoCall EXCEPT !.op = "edit_context"], Sys)

\* The (repository, identity) pairs a caller tags: a bare and a tagged
\* repository with a built identity, and the malformed identities.
TagRequests ==
  {[repo |-> repo, id |-> IdA] :
     repo \in {<<"myrepo/db">>, <<"myrepo/db", ":", "latest">>}}
  \cup {[repo |-> <<"myrepo/db">>, id |-> id] :
          id \in {IdNoColon, IdEmptyHex, IdNonHex}}

TagContentAddressable ==
  /\ nops < MaxOps
  /\ \E c \in TagRequests :
       \E r \in {tag_content_addressable(Sys, c.repo, c.id, tagOk, "") :
                   tagOk \in BOOLEAN} :
         Call("tag_content_addressable", r, <<>>, c.id, NoPath, c.repo)

RelocateImages ==
  /\ nops < MaxOps
  /\ \E image_ids \in IdMaps :
       \E r \in {relocate_images_to_content_addressable(Sys, image_ids, tagOks) :
                   tagOks \in [1..Len(Images1) -> BOOLEAN]} :
         Call("relocate", r, <<>>, image_ids, NoPath, <<>>)

BuildCnabApp ==
  /\ nops < MaxOps
  /\ \E output_file \in {NoPath, BundlePath} :
       \E r \in {build_cnab_app(Sys, context, output_file, env, catags) :
                   env \in Envs,
                   catags \in [1..Len(read_manifest(Sys).invocationImages)
                                 -> BOOLEAN]} :
         Call("build_cnab_app", r, context, <<>>, output_file,
              InvocationRef(context, None))

Next ==
  \/ BuildWithClientCache
  \/ TagContentAddressable
  \/ RelocateImages
  \/ BuildCnabApp
  \/ EditContext

Spec == Init /\ [][Next]_vars

\* ------------------------------------------------------ the digest alone
\* digest_build_invocation applied to contexts, walk orders and argument
\* sequences; last and prev record the two latest applications.

DigestContexts == {Ctx1, Ctx2, Ctx3}

DigestArgs ==
  {<<>>, <<"--pull">>, <<"--pull", "--no-cache">>, <<"--no-cache", "--pull">>}

InitDigest ==
  /\ store = <<>>
  /\ context \in DigestContexts
  /\ iid_out = Absent
  /\ scratch = {}
  /\ tmpn = 0
  /\ duffle_json = NoFile
  /\ output = NoFile
  /\ last = NoCall
  /\ prev = NoCall
  /\ nops = 0
  /\ built = {}
  /\ procs = NoCallers

DigestInvocation ==
  /\ \E walk \in Walks(context), args \in DigestArgs :
       last' = [NoCall EXCEPT !.op = "digest", !.ctx = context, !.args = args,
                              !.key = walk,
                              !.ret = digest_build_invocation_walk(context, walk, args)]
  /\ prev' = last
  /\ UNCHANGED <<store, context, iid_out, scratch, tmpn, duffle_json, output,
                 nops, built, procs>>

\* The build context is edited between two digests.
EditDigestContext ==
  /\ context' \in DigestContexts \ {context}
  /\ UNCHANGED <<store, iid_out, scratch, tmpn, duffle_json, output, last, prev,
                 nops, built, procs>>

NextDigest ==
  \/ DigestInvocation
  \/ EditDigestContext

SpecDigest == InitDigest /\ [][NextDigest]_vars

\* ------------------------------------------------------ concurrent callers
\* Two callers run build_with_client_cache on the same context with the same
\* arguments against one store.  A step is one external primitive or one
\* file operation of a caller (docker.py:125-152); the steps of the two
\* callers interleave in every order.

InitConc ==
  /\ store \in InitialStores
  /\ context = Ctx1
  /\ iid_out = Absent
  /\ scratch = {}
  /\ tmpn = 0
  /\ duffle_json = NoFile
  /\ output = NoFile
  /\ last = NoCall
  /\ prev = NoCall
  /\ nops = 0
  /\ built = {[ref |-> r, id |-> store[r]] : r \in DOMAIN store}
  /\ \E args \in ArgChoices, iidfiles \in [Callers -> {NoPath, IidPath}] :
       procs = [p \in Callers |-> Caller("start", args, iidfiles[p])]

\* The invocation reference of a caller's inputs.
CallerRef(p) == InvocationRef(context, procs[p].args)

\* A step of caller p that leaves the caller as c and the world as sys.
CallerStep(p, c, sys) ==
  /\ procs' = [procs EXCEPT ![p] = c]
  /\ Commit(sys)
  /\ built' = built \cup BuildsIn(sys.log)
  /\ UNCHANGED <<context, last, prev, nops>>

\* image_id = self.image_id(imgref)
Lookup(p) ==
  /\ procs[p].pc = "start"
  /\ CallerStep(p,
       [procs[p] EXCEPT !.image_id = image_id(store, CallerRef(p)),
                        !.pc = IF Truthy(image_id(store, CallerRef(p)))
                               THEN "hit" ELSE "mkdtemp"],
       Sys)

\* if image_id: write it to iidfile when one is given; return image_id
Hit(p) ==
  /\ procs[p].pc = "hit"
  /\ CallerStep(p,
       [procs[p] EXCEPT !.ret = procs[p].image_id, !.pc = "done"],
       CacheHit(Sys, procs[p].iidfile, procs[p].image_id).sys)

\* tmpdir = tempfile.mkdtemp() when no iidfile is given
MkDir(p) ==
  /\ procs[p].pc = "mkdtemp"
  /\ CallerStep(p,
       [procs[p] EXCEPT !.tmpdir = IF Truthy(procs[p].iidfile)
                                   THEN NoDir ELSE tmpn + 1,
                        !.pc = "build"],
       MkTmp(Sys, procs[p].iidfile))

\* b is the result of docker build (check=True).
Built(p, b) ==
  CallerStep(p,
    [procs[p] EXCEPT !.builds = @ + 1,
                     !.tmpfile = b.tmpfile,
                     !.err = IF b.returncode # 0 THEN "BuildError" ELSE "",
                     !.pc = IF b.returncode # 0 THEN "finally" ELSE "read"],
    b.sys)

Build(p) ==
  /\ procs[p].pc = "build"
  /\ \E outcome \in {BuildFails} \cup BuildIds :
       Built(p, docker_build(Sys, procs[p].iidfile, CallerRef(p),
                             [build |-> outcome, read |-> TRUE, tag |-> TRUE], ""))

\* with open(iidfile, 'r') as f: iid = f.read().strip()
Read(p) ==
  /\ procs[p].pc = "read"
  /\ \E ok \in BOOLEAN :
       LET content == IF Truthy(procs[p].iidfile) THEN iid_out
                      ELSE procs[p].tmpfile
       IN CallerStep(p,
            IF ~ok \/ content = Absent
            THEN [procs[p] EXCEPT !.err = "IOError", !.pc = "finally"]
            ELSE [procs[p] EXCEPT !.iid = strip(content), !.pc = "tag"],
            Sys)

\* t is the result of docker tag iid imgref (check=True).
TaggedBy(p, t) ==
  CallerStep(p, [procs[p] EXCEPT !.err = t.err, !.pc = "finally"], t.sys)

Tag(p) ==
  /\ procs[p].pc = "tag"
  /\ \E ok \in BOOLEAN :
       TaggedBy(p, TagInvocation(Sys, procs[p].iid, CallerRef(p),
                                 [build |-> procs[p].iid, read |-> TRUE,
                                  tag |-> ok], ""))

\* finally: if tmpdir: shutil.rmtree(tmpdir); then return iid, or the error
\* of the try body goes on to the caller.
Cleanup(p) ==
  /\ procs[p].pc = "finally"
  /\ CallerStep(p,
       [procs[p] EXCEPT !.ret = IF procs[p].err = "" THEN procs[p].iid ELSE None,
                        !.pc = "done"],
       Finally([sys |-> Sys], procs[p].tmpdir).sys)

NextConc ==
  \E p \in Callers :
    \/ Lookup(p)
    \/ Hit(p)
    \/ MkDir(p)
    \/ Build(p)
    \/ Read(p)
    \/ Tag(p)
    \/ Cleanup(p)

SpecConc == InitConc /\ [][NextConc]_vars

\* ------------------------------------------------------------------ claims

IsBuild(c) == c.op = "build_with_client_cache"

Count(log, prim) == Cardinality({j \in 1..Len(log) : log[j].prim = prim})

BuildFailed(c) ==
  \E j \in 1..Len(c.log) : c.log[j].prim = "build" /\ ~c.log[j].ok

SameInputs == IsBuild(prev) /\ IsBuild(last) /\ last.ctx = prev.ctx /\ last.args = prev.args

\* C1: a build_with_client_cache call started where the store resolves
\* 'build-context:' + digest(context, args) to a non-empty identity i returns
\* i and invokes neither the build primitive nor a tag primitive.
C1_CacheHitNoBuild ==
  (IsBuild(last) /\ last.key \in DOMAIN last.pre_store
     /\ last.pre_store[last.key] # <<>>)
  => /\ last.err = ""
     /\ last.ret = last.pre_store[last.key]
     /\ \A j \in 1..Len(last.log) : last.log[j].prim \notin {"build", "tag"}

C1_Witness ==
  /\ IsBuild(last)
  /\ last.key \in DOMAIN last.pre_store
  /\ last.ret = last.pre_store[last.key]
  /\ Len(last.log) = 1

\* C2 as stated: two successive build_with_client_cache calls with identical
\* (context, args) invoke the build primitive exactly once in total and the
\* second returns the identity of the first without building.
C2_ExactlyOneBuild ==
  SameInputs
  => /\ Count(prev.log, "build") + Count(last.log, "build") = 1
     /\ Count(last.log, "build") = 0
     /\ last.ret = prev.ret

\* C2 amended: when the first of two successive calls with identical
\* (context, args) returns an identity, the build primitive is invoked at
\* most once in total, exactly once if the reference was untagged when the
\* first call started, and the second call returns the same identity
\* without building.
C2_OneBuildAfterSuccess ==
  (SameInputs /\ prev.err = "")
  => /\ Count(prev.log, "build") + Count(last.log, "build") <= 1
     /\ (prev.key \notin DOMAIN prev.pre_store
           => Count(prev.log, "build") + Count(last.log, "build") = 1)
     /\ Count(last.log, "build") = 0
     /\ last.err = ""
     /\ last.ret = prev.ret

C2_Witness ==
  /\ SameInputs
  /\ prev.err = ""
  /\ Count(prev.log, "build") = 1
  /\ Count(last.log, "build") = 0
  /\ last.ret = prev.ret
  /\ last.ret \in BuildIds

\* C3: when the build step of build_with_client_cache fails, the call ends
\* in an error, the store is unchanged with the invocation reference
\* untagged, and the next call with the same (context, args) builds again.
C3_NoNegativeCaching ==
  /\ (IsBuild(last) /\ BuildFailed(last))
       => /\ last.err # ""
          /\ last.ret = None
          /\ store = last.pre_store
          /\ last.key \notin DOMAIN store
  /\ (SameInputs /\ BuildFailed(prev)) => Count(last.log, "build") = 1

C3_Witness ==
  /\ SameInputs
  /\ BuildFailed(prev)
  /\ prev.err = "BuildError"
  /\ Count(last.log, "build") = 1
  /\ last.err = ""

FailedTag(c) ==
  \E j \in 1..Len(c.log) : c.log[j].prim = "tag" /\ ~c.log[j].ok

\* C4: build_cnab_app writes the output file at most once and only after
\* every invocation image was processed successfully; when processing an
\* entry fails (unsupported builder, build failure, tag failure, malformed
\* identity) the output file keeps its prior content.
C4_AllOrNothingWrite ==
  last.op = "build_cnab_app"
  => /\ Count(last.log, "write") <= 1
     /\ (Count(last.log, "write") = 1
           => /\ last.err = ""
              /\ last.reached = Len(json_load(last.pre_duffle).invocationImages)
              /\ ~FailedTag(last))
     /\ ((last.err # "" \/ FailedTag(last)) => output = last.pre_output)

\* The reference without its ':tag' suffix.
RepositoryPortion(ref) ==
  IF \E j \in 1..Len(ref) : ref[j] = ":"
  THEN SubSeq(ref, 1, (CHOOSE j \in 1..Len(ref) :
                         ref[j] = ":" /\ \A l \in (j + 1)..Len(ref) : ref[l] # ":") - 1)
  ELSE ref

\* The first TagLen characters after the first ':' of an identity.
IdentityTag(id) ==
  LET c == CHOOSE j \in 1..Len(id) : id[j] = ":" /\ \A l \in 1..(j - 1) : id[l] # ":"
      rest == SubSeq(id, c + 1, Len(id))
  IN IF Len(rest) <= TagLen THEN rest ELSE SubSeq(rest, 1, TagLen)

\* C5: after relocate_images_to_content_addressable every images entry whose
\* name is a key of the identities has 'image' = repository portion of its
\* reference + ':' + first 40 characters after the first ':' of the identity
\* and 'contentDigest' = the identity.
C5_RelocationResult ==
  (last.op = "relocate" /\ last.err = "")
  => LET pre == json_load(last.pre_duffle).images
         post == json_load(duffle_json).images
     IN \A i \in 1..Len(pre) :
          pre[i].k \in DOMAIN last.args
          => /\ post[i].v["image"] =
                  RepositoryPortion(pre[i].v["image"]) \o <<":">>
                  \o IdentityTag(last.args[pre[i].k])
             /\ post[i].v["contentDigest"] = last.args[pre[i].k]

\* C6: relocate_images_to_content_addressable changes only 'image' and
\* 'contentDigest' of the images entries named in the identities; the other
\* entries, the other keys of a touched entry and every other top-level
\* field of the manifest are the same before and after.
C6_RelocationFrame ==
  last.op = "relocate"
  => LET pre == json_load(last.pre_duffle)
         post == json_load(duffle_json)
     IN IF last.err # "" THEN duffle_json = last.pre_duffle
        ELSE /\ DOMAIN post = DOMAIN pre
             /\ \A f \in DOMAIN pre \ {"images"} : post[f] = pre[f]
             /\ Len(post.images) = Len(pre.images)
             /\ \A i \in 1..Len(pre.images) :
                  /\ post.images[i].k = pre.images[i].k
                  /\ IF pre.images[i].k \notin DOMAIN last.args
                     THEN post.images[i].v = pre.images[i].v
                     ELSE /\ DOMAIN post.images[i].v =
                               DOMAIN pre.images[i].v \cup {"image", "contentDigest"}
                          /\ \A f \in DOMAIN pre.images[i].v \ {"image", "contentDigest"} :
                               post.images[i].v[f] = pre.images[i].v[f]

C6_Witness ==
  /\ last.op = "relocate"
  /\ last.err = ""
  /\ DOMAIN last.args = {"db"}
  /\ duffle_json # last.pre_duffle
  /\ "description" \in DOMAIN json_load(duffle_json).images[1].v

\* C7: when build_with_client_cache is called with an identity file path and
\* returns identity i, the file holds i on return, on a hit and on a miss.
C7_IdentityFile ==
  (IsBuild(last) /\ Truthy(last.iidfile) /\ last.err = "")
  => iid_out = last.ret

C7_Witness ==
  /\ IsBuild(last)
  /\ Truthy(last.iidfile)
  /\ last.err = ""
  /\ last.key \in DOMAIN last.pre_store
  /\ last.pre_iid # last.ret
  /\ iid_out = last.ret

\* C8: after build_with_client_cache ends, by a return or by a failure of
\* the build, the read or the tag step, no scratch directory it created
\* exists; a call given an identity file, and a call that hits the cache,
\* creates none.
C8_ScratchCleanup ==
  /\ last.made \cap scratch = {}
  /\ scratch = {}
  /\ (IsBuild(last) /\ (Truthy(last.iidfile) \/ last.key \in DOMAIN last.pre_store))
       => last.made = {}

C8_Witness ==
  /\ IsBuild(last)
  /\ last.err \in {"BuildError", "IOError", "TagError"}
  /\ last.made # {}
  /\ scratch = {}

Unsupported(spec) ==
  "builder" \in DOMAIN spec /\ spec["builder"] # <<"docker">>

\* C9: for an invocationImages entry whose builder is not 'docker',
\* build_cnab_app fails when it reaches the entry, performs no lookup, build
\* or tag for it, and writes no output manifest.
C9_UnsupportedBuilder ==
  last.op = "build_cnab_app"
  => LET inv == json_load(last.pre_duffle).invocationImages
     IN \A k \in 1..Len(inv) :
          Unsupported(inv[k].v)
          => /\ last.err # ""
             /\ last.reached <= k
             /\ (last.reached = k => last.err = "Unsupported")
             /\ \A j \in 1..Len(last.log) : last.log[j].who # inv[k].k
             /\ Count(last.log, "write") = 0
             /\ output = last.pre_output

C9_Witness ==
  /\ last.op = "build_cnab_app"
  /\ last.err = "Unsupported"
  /\ last.reached = 2
  /\ Count(last.log, "tag") >= 1
  /\ Truthy(last.iidfile)

\* The identity build_with_client_cache yields for the call's context with
\* no extra arguments: the one the store held, else the one the build made.
CallIdentity(c) ==
  IF c.key \in DOMAIN c.pre_store THEN c.pre_store[c.key]
  ELSE c.log[CHOOSE j \in 1..Len(c.log) :
               c.log[j].prim = "build" /\ c.log[j].ok].id

RegistryPrefix(spec) ==
  IF /\ "configuration" \in DOMAIN spec
     /\ "registry" \in DOMAIN spec["configuration"]
     /\ spec["configuration"]["registry"] # <<>>
  THEN spec["configuration"]["registry"] \o <<"/">>
  ELSE <<>>

\* C10: when build_cnab_app succeeds, the output holds for every input entry
\* named n exactly one spec {image: r, contentDigest: i, imageType: 'docker'}
\* with i the identity of the cnab directory built with no extra arguments
\* and r = [registry/]<applicationName>-<n>:<first 40 characters of i after
\* its first ':'>, the registry prefix present exactly when the entry's
\* configuration names a non-empty registry.
C10_InvocationImageReplacement ==
  (last.op = "build_cnab_app" /\ last.err = "")
  => LET m == json_load(last.pre_duffle)
         inv == m.invocationImages
         out == last.ret.invocationImages
         i == CallIdentity(last)
     IN /\ Len(out) = Len(inv)
        /\ \A k \in 1..Len(inv) :
             out[k] = [image |-> RegistryPrefix(inv[k].v)
                                 \o <<m.name, "-", inv[k].k, ":">> \o IdentityTag(i),
                       contentDigest |-> i,
                       imageType |-> <<"docker">>]
        /\ (Truthy(last.iidfile) => output = canonical_json(last.ret))

C10_Witness ==
  /\ last.op = "build_cnab_app"
  /\ last.err = ""
  /\ Len(last.ret.invocationImages) = 2
  /\ Count(last.log, "build") = 1
  /\ output = canonical_json(last.ret)
  /\ last.ret.invocationImages[1].image[1] = "reg.io"
  /\ last.ret.invocationImages[2].image[1] = "app"

HexDigits ==
  {"0", "1", "2", "3", "4", "5", "6", "7", "8", "9", "a", "b", "c", "d", "e", "f"}

\* An identity of the shape <algorithm>:<hex>.
WellFormedIdentity(id) ==
  /\ \E j \in 1..Len(id) : id[j] = ":"
  /\ LET c == CHOOSE j \in 1..Len(id) :
                 id[j] = ":" /\ \A l \in 1..(j - 1) : id[l] # ":"
     IN /\ c > 1
        /\ c < Len(id)
        /\ \A l \in (c + 1)..Len(id) : id[l] \in HexDigits

\* C11: tag_content_addressable given an identity that is not of the shape
\* <algorithm>:<hex> (no ':', nothing after the ':', or characters after it
\* that are no hex digits) ends in an error, returns no reference and
\* creates no tag.
C11_MalformedIdentity ==
  (last.op = "tag_content_addressable" /\ ~WellFormedIdentity(last.args))
  => /\ last.err # ""
     /\ last.ret = None
     /\ store = last.pre_store

\* The references a call tagged.
TagsMade(c) ==
  {c.log[j].ref : j \in {j \in 1..Len(c.log) : c.log[j].prim = "tag" /\ c.log[j].ok}}

\* C12: no operation removes a tag: every reference the store held when a
\* call started is in the store when it ends, and so is every reference the
\* call tagged, also when the call is a build_cnab_app that fails on a later
\* invocation image.
C12_TagsNeverRemoved ==
  /\ DOMAIN last.pre_store \subseteq DOMAIN store
  /\ \A ref \in DOMAIN last.pre_store :
       ref \notin TagsMade(last) => store[ref] = last.pre_store[ref]
  /\ TagsMade(last) \subseteq DOMAIN store

C12_Witness ==
  /\ last.op = "build_cnab_app"
  /\ last.err = "Unsupported"
  /\ last.reached = 2
  /\ last.pre_store = <<>>
  /\ Cardinality(TagsMade(last)) = 2
  /\ TagsMade(last) \subseteq DOMAIN store

IsDigest(c) == c.op = "digest"

\* b holds the elements of a in another order.
Reordered(a, b) ==
  /\ Len(a) = Len(b)
  /\ a # b
  /\ \A x \in {a[i] : i \in 1..Len(a)} :
       Cardinality({i \in 1..Len(a) : a[i] = x})
         = Cardinality({i \in 1..Len(b) : b[i] = x})

\* C13: the digest of a build invocation is the same for every order in
\* which the walk enumerates the files (it is the digest of the mapping from
\* path to content and of the arguments), two digests of the same context
\* with the same arguments are equal, and two argument sequences that differ
\* only in order give different digests.
C13_DigestDeterminism ==
  /\ IsDigest(last) => last.ret = digest_build_invocation(last.ctx, last.args)
  /\ (IsDigest(prev) /\ IsDigest(last) /\ prev.ctx = last.ctx)
       => /\ (prev.args = last.args => last.ret = prev.ret)
          /\ (Reordered(prev.args, last.args) => last.ret # prev.ret)

C13_Witness ==
  /\ IsDigest(prev)
  /\ IsDigest(last)
  /\ prev.ctx = Ctx3
  /\ last.ctx = Ctx3
  /\ prev.key # last.key
  /\ prev.key[1] = "sub/c.txt"
  /\ prev.args = <<"--pull", "--no-cache">>
  /\ last.args = prev.args
  /\ last.ret = prev.ret

IsInvocationRef(ref) == Len(ref) >= 2 /\ ref[1] = "build-context" /\ ref[2] = ":"

\* C14: whenever the store resolves 'build-context:' + d to identity i, an
\* external build of inputs with digest d succeeded and assigned i; and in a
\* build_with_client_cache call every tag request follows a successful build
\* of the call and carries the identity and the reference of that build.
C14_CacheSoundness ==
  /\ \A ref \in DOMAIN store :
       IsInvocationRef(ref) => [ref |-> ref, id |-> store[ref]] \in built
  /\ IsBuild(last)
       => \A j \in 1..Len(last.log) :
            last.log[j].prim = "tag"
            => \E b \in 1..(j - 1) :
                 /\ last.log[b].prim = "build"
                 /\ last.log[b].ok
                 /\ last.log[b].id = last.log[j].id
                 /\ last.log[b].ref = last.log[j].ref
                 /\ last.log[j].ref = last.key

C14_Witness ==
  /\ IsBuild(last)
  /\ Truthy(last.iidfile)
  /\ last.key \notin DOMAIN last.pre_store
  /\ last.key \in DOMAIN store
  /\ last.pre_iid \notin {Absent, store[last.key]}
  /\ [ref |-> last.key, id |-> store[last.key]] \in built

\* C15: a reference that tag_content_addressable returns for an identity of
\* the shape <algorithm>:<hex> resolves to that identity; and every image reference of the manifest that
\* build_cnab_app returns (each one the result of build_content_addressable)
\* resolves to its contentDigest, as does the invocation reference of the
\* cnab directory.
C15_ReturnedReferenceResolves ==
  /\ (last.op = "tag_content_addressable" /\ last.err = ""
        /\ WellFormedIdentity(last.args))
       => /\ last.ret \in DOMAIN store
          /\ store[last.ret] = last.args
  /\ (last.op = "build_cnab_app" /\ last.err = "")
       => \A k \in 1..Len(last.ret.invocationImages) :
            LET e == last.ret.invocationImages[k]
            IN /\ e.image \in DOMAIN store
               /\ store[e.image] = e.contentDigest
               /\ last.key \in DOMAIN store
               /\ store[last.key] = e.contentDigest

Returned(p) == procs[p].pc = "done" /\ procs[p].err = ""

\* The caller's inputs were built with identity id.
BuiltFor(p, id) == [ref |-> CallerRef(p), id |-> id] \in built

CallersSound ==
  \A p \in Callers :
    /\ Returned(p)
         => /\ BuiltFor(p, procs[p].ret)
            /\ CallerRef(p) \in DOMAIN store
    /\ (procs[p].pc # "idle" /\ CallerRef(p) \in DOMAIN store)
         => BuiltFor(p, store[CallerRef(p)])

\* C16 as stated, for the runs in which no build fails: for two interleaved
\* calls with identical inputs every call that returns returns an identity a
\* build of those inputs produced, the invocation reference resolves to such
\* an identity, and the build primitive is invoked at most once across both
\* calls.
C16_AtMostOneBuild ==
  /\ CallersSound
  /\ (\A p \in Callers : procs[p].err # "BuildError")
       => procs[1].builds + procs[2].builds <= 1

\* C16 amended: every call that returns returns an identity a build of
\* those inputs produced, once a call has returned the invocation reference
\* resolves to such an identity, and each call invokes the build primitive
\* at most once.
C16_ConcurrentCallers ==
  /\ CallersSound
  /\ \A p \in Callers : procs[p].builds <= 1

C16_Witness ==
  /\ Returned(1)
  /\ Returned(2)
  /\ procs[1].builds = 1
  /\ procs[2].builds = 1
  /\ procs[1].ret # procs[2].ret
  /\ store[CallerRef(1)] = procs[2].ret
  /\ scratch = {}

\* The positions of the log entries of a primitive.
Entries(log, prim) == {j \in 1..Len(log) : log[j].prim = prim}

\* The ':tag' suffix of a reference.
TagPortion(ref) == SubSeq(ref, Len(RepositoryPortion(ref)) + 1, Len(ref))

\* C17: in one build_cnab_app call every lookup and every build is for the
\* invocation reference of the cnab directory with no arguments; the build
\* primitive is invoked at most once, and not at all when that reference was
\* tagged at the start; every lookup after the first is a hit; and the output
\* entries all carry the same contentDigest and the same tag, differing only
\* in the repository.
C17_OneBuildPerRun ==
  last.op = "build_cnab_app"
  => /\ Count(last.log, "build") <= 1
     /\ (last.key \in DOMAIN last.pre_store => Count(last.log, "build") = 0)
     /\ \A j \in Entries(last.log, "inspect") \cup Entries(last.log, "build") :
          last.log[j].ref = last.key
     /\ \A i, j \in Entries(last.log, "inspect") : i < j => last.log[j].ok
     /\ last.err = ""
          => \A k, l \in 1..Len(last.ret.invocationImages) :
               LET a == last.ret.invocationImages[k]
                   b == last.ret.invocationImages[l]
               IN /\ a.contentDigest = b.contentDigest
                  /\ TagPortion(a.image) = TagPortion(b.image)
                  /\ (k # l => RepositoryPortion(a.image) # RepositoryPortion(b.image))

C17_Witness ==
  /\ last.op = "build_cnab_app"
  /\ last.err = ""
  /\ last.key \notin DOMAIN last.pre_store
  /\ Len(last.ret.invocationImages) = 2
  /\ Count(last.log, "build") = 1
  /\ Cardinality(Entries(last.log, "inspect")) = 2
  /\ last.ret.invocationImages[1].image # last.ret.invocationImages[2].image
  /\ last.ret.invocationImages[1].contentDigest = IdA

====
